---- MODULE Spec2Model ----
(***************************************************************************)
(* Study-tracking backend: the record store (subjects, study sessions) and *)
(* the handlers that derive statistics from it (streaks, analytics,        *)
(* weekly insights, subject feedback, subject stats).                      *)
(*                                                                         *)
(* Units.  An instant is an integer number of ticks; a calendar day holds  *)
(* TicksPerDay ticks, so timestamp.date() is an integer division and not   *)
(* the identity.  time_spent is an integer number of hundredths of an      *)
(* hour, so round(x, 2) of a sum of time_spent values is the sum itself.   *)
(* average_focus_level is reported in tenths (round(x, 1)).                *)
(***************************************************************************)
EXTENDS Integers, Sequences, FiniteSets, TLC

VARIABLES
    now,        \* datetime.utcnow(): the current instant, in ticks
    subjects,   \* table Subject, in id order: [id, name, user_id]
    sessions,   \* table StudySession, in id order:
                \*   [id, subject_id, time_spent, focus_level, timestamp]
    response,   \* the response of the request handled at the current instant
    calls,      \* for each user, the locals of the aggregation request of
                \* that user that a thread is running step by step
    audio_notes,\* table AudioNote, in id order: [id, user_id, timestamp]
    pending     \* the other requests that threads are in the middle of: what
                \* each has read so far and is about to write or to answer

vars == <<now, subjects, sessions, response, calls, audio_notes, pending>>

----------------------------------------------------------------------------
(* Bounds of the model *)

TicksPerDay == 2
MaxSubjects == 3
MaxSessions == 3
MaxNow == 3
MaxStreakSessions == 3
MaxStreakNow == 6
MaxFocusSessions == 3
MaxFocusNow == 1
MaxUpdateSessions == 2
MaxWindowSessions == 2
MaxLate == 1
MaxRankSessions == 3
MaxTopSubjects == 11
MaxCallSessions == 2
MaxCallDays == 1
MaxPending == 2
MaxGroupSessions == 3
MaxGroupNow == 2

(* Inputs of the requests *)

Users == {1, 2}

\* the users whose role is 'admin'
Admins == {2}
Names == {"math", "art"}

\* focus_level column is nullable: None is the absent value (NULL)
None == -1

----------------------------------------------------------------------------
(* Helpers over sequences *)

RECURSIVE SumSeq(_)
SumSeq(s) == IF s = <<>> THEN 0 ELSE Head(s) + SumSeq(Tail(s))

Max2(a, b) == IF a >= b THEN a ELSE b

RECURSIVE MaxOfSeq(_)
MaxOfSeq(s) == IF s = <<>> THEN 0 ELSE Max2(Head(s), MaxOfSeq(Tail(s)))

\* the value at the primary key the database gives to the next inserted row
NextId(table) == MaxOfSeq([i \in 1..Len(table) |-> table[i].id]) + 1

\* timestamp.date(): the calendar day of an instant
DateOf(ts) == ts \div TicksPerDay

\* datetime.utcnow().date()
Today == DateOf(now)

\* timedelta(days=d) in ticks
Days(d) == d * TicksPerDay

----------------------------------------------------------------------------
(* The record store *)

SubjectIds == {subjects[i].id : i \in 1..Len(subjects)}

SubjectById(sid) == CHOOSE s \in {subjects[i] : i \in 1..Len(subjects)} : s.id = sid

\* Subject.query.filter_by(id=subject_id, user_id=current_user_id).first()
OwnsSubject(u, sid) ==
    \E i \in 1..Len(subjects) : subjects[i].id = sid /\ subjects[i].user_id = u

\* Subject.query.filter_by(user_id=current_user_id, name=name).first()
NameTaken(u, name) ==
    \E i \in 1..Len(subjects) : subjects[i].user_id = u /\ subjects[i].name = name

\* StudySession.query.join(Subject).filter(Subject.user_id == u): with the
\* owner filter dropped, every stored session is selected
OwnedByAnyone(u, s) == s.subject_id \in SubjectIds

\* StudySession.query.join(Subject).filter(Subject.user_id == u)
OwnedBy(u, s) == OwnsSubject(u, s.subject_id)

UserSessions(u) == SelectSeq(sessions, LAMBDA s : OwnedBy(u, s))

NoResponse == [op |-> "none"]

\* the locals of a request that is not running: rows is the result of its
\* query, i the place of the loop in rows, and daily_data, subject_data and
\* subject_sessions are the dicts that its loops fill
IdleCall ==
    [pc |-> "idle", days |-> 0, rows |-> <<>>, i |-> 0,
     daily_data |-> <<>>, subject_data |-> <<>>, subject_sessions |-> <<>>]

Init ==
    /\ now = 0
    /\ subjects = <<>>
    /\ sessions = <<>>
    /\ response = NoResponse
    /\ calls = [u \in Users |-> IdleCall]
    /\ audio_notes = <<>>
    /\ pending = <<>>

----------------------------------------------------------------------------
(* Writers *)

\* the clock advances; the response of the previous instant has been delivered
Tick(maxNow) ==
    /\ now < maxNow
    /\ now' = now + 1
    /\ response' = NoResponse
    /\ UNCHANGED <<subjects, sessions, calls, audio_notes, pending>>

\* the clock moves on by a number of ticks at once, while no request is handled
Advance(ticks, maxNow) ==
    /\ now + ticks <= maxNow
    /\ now' = now + ticks
    /\ response' = NoResponse
    /\ UNCHANGED <<subjects, sessions, calls, audio_notes, pending>>

\* POST /subjects
CreateSubject(u, name, maxSubjects) ==
    /\ Len(subjects) < maxSubjects
    /\ IF NameTaken(u, name)
       THEN /\ response' = [op |-> "create_subject", status |-> 409]
            /\ UNCHANGED subjects
       ELSE /\ subjects' = Append(subjects,
                [id |-> NextId(subjects), name |-> name, user_id |-> u])
            /\ response' = [op |-> "create_subject", status |-> 201]
    /\ UNCHANGED <<now, sessions, calls, audio_notes, pending>>

\* POST /sessions
CreateSession(u, subject_id, time_spent, focus_level, maxSessions) ==
    /\ Len(sessions) < maxSessions
    /\ IF subject_id = 0
       THEN /\ response' = [op |-> "create_session", status |-> 400]
            /\ UNCHANGED sessions
       ELSE IF time_spent <= 0
       THEN /\ response' = [op |-> "create_session", status |-> 400]
            /\ UNCHANGED sessions
       ELSE IF ~OwnsSubject(u, subject_id)
       THEN /\ response' = [op |-> "create_session", status |-> 404]
            /\ UNCHANGED sessions
       ELSE IF focus_level /= None /\ (focus_level < 1 \/ focus_level > 10)
       THEN /\ response' = [op |-> "create_session", status |-> 400]
            /\ UNCHANGED sessions
       ELSE /\ sessions' = Append(sessions,
                [id |-> NextId(sessions), subject_id |-> subject_id,
                 time_spent |-> time_spent, focus_level |-> focus_level,
                 timestamp |-> now])
            /\ response' = [op |-> "create_session", status |-> 201]
    /\ UNCHANGED <<now, subjects, calls, audio_notes, pending>>

\* a key that the JSON body of a request does not hold
Missing == -2

\* `time_spent < 0`: a time of 0 passes
InvalidTimeNegativeOnly(time_spent) == time_spent < 0

\* `data['time_spent'] <= 0`
InvalidTime(time_spent) == time_spent <= 0

\* `focus_level is not None and focus_level > 10`: a level of 0 passes
InvalidFocusAboveOnly(focus_level) == focus_level /= None /\ focus_level > 10

\* `focus_level is not None and (focus_level < 1 or focus_level > 10)`
InvalidFocus(focus_level) == focus_level /= None /\ (focus_level < 1 \/ focus_level > 10)

\* StudySession.query.join(Subject).filter(StudySession.id == session_id,
\*                                         Subject.user_id == current_user_id)
OwnsSession(u, session_id) ==
    \E i \in 1..Len(sessions) : sessions[i].id = session_id /\ OwnedBy(u, sessions[i])

\* the table with the row of this id replaced
WithRow(session_id, row) ==
    [i \in 1..Len(sessions) |-> IF sessions[i].id = session_id THEN row ELSE sessions[i]]

\* the changes made to the loaded row reach the table although the handler
\* returned before its commit
AfterReturnFlushed(stored, loaded) == loaded

\* the row in the table after a handler returned without commit: the changes
\* assigned to the loaded row are dropped with the session of the request
AfterReturn(stored, loaded) == stored

\* PUT /sessions/<session_id>; time_spent and focus_level are the values of
\* the body, Missing for a key that the body does not hold.  The fields are
\* assigned to the loaded row as they are validated and written by the commit
\* at the end.  The response names the request it answers.
UpdateSession(u, session_id, time_spent, focus_level) ==
    /\ LET request == [session_id |-> session_id, time_spent |-> time_spent,
                       focus_level |-> focus_level]
           answer(status) == [op |-> "update_session", status |-> status,
                              user |-> u, request |-> request]
       IN  IF ~OwnsSession(u, session_id)
           THEN /\ response' = answer(404)
                /\ UNCHANGED sessions
           ELSE IF time_spent = Missing /\ focus_level = Missing
           THEN /\ response' = answer(400)
                /\ UNCHANGED sessions
           ELSE IF time_spent /= Missing /\ InvalidTime(time_spent)
           THEN /\ response' = answer(400)
                /\ UNCHANGED sessions
           ELSE LET stored == CHOOSE s \in {sessions[i] : i \in 1..Len(sessions)} :
                                  s.id = session_id
                    timed == [stored EXCEPT !.time_spent =
                                 IF time_spent /= Missing THEN time_spent ELSE @]
                IN  IF focus_level /= Missing /\ InvalidFocus(focus_level)
                    THEN /\ response' = answer(400)
                         /\ sessions' = WithRow(session_id, AfterReturn(stored, timed))
                    ELSE /\ sessions' = WithRow(session_id,
                                 [timed EXCEPT !.focus_level =
                                     IF focus_level /= Missing THEN focus_level ELSE @])
                         /\ response' = answer(200)
    /\ UNCHANGED <<now, subjects, calls, audio_notes, pending>>

----------------------------------------------------------------------------
(* GET /sessions/streak *)

\* insert x into a descending sequence, after the elements equal to it
RECURSIVE InsertDesc(_, _)
InsertDesc(x, s) ==
    IF s = <<>> THEN <<x>>
    ELSE IF Head(s) >= x THEN <<Head(s)>> \o InsertDesc(x, Tail(s))
    ELSE <<x>> \o s

\* sorted(keys, reverse=True)
RECURSIVE SortedDesc(_)
SortedDesc(s) ==
    IF s = <<>> THEN <<>> ELSE InsertDesc(s[Len(s)], SortedDesc(SubSeq(s, 1, Len(s) - 1)))

RECURSIVE InsertNewestFirst(_, _)
InsertNewestFirst(x, s) ==
    IF s = <<>> THEN <<x>>
    ELSE IF Head(s).timestamp >= x.timestamp
         THEN <<Head(s)>> \o InsertNewestFirst(x, Tail(s))
    ELSE <<x>> \o s

\* .order_by(StudySession.timestamp.desc()).all()
RECURSIVE NewestFirst(_)
NewestFirst(s) ==
    IF s = <<>> THEN <<>>
    ELSE InsertNewestFirst(s[Len(s)], NewestFirst(SubSeq(s, 1, Len(s) - 1)))

InSeq(x, s) == \E i \in 1..Len(s) : s[i] = x

\* the date of every session, one entry per session (no grouping by date)
DateKeysUngrouped(ss) == [i \in 1..Len(ss) |-> DateOf(ss[i].timestamp)]

RECURSIVE GroupDates(_, _)
GroupDates(ss, keys) ==
    IF ss = <<>> THEN keys
    ELSE LET date_key == DateOf(Head(ss).timestamp)
         IN  GroupDates(Tail(ss),
                        IF InSeq(date_key, keys) THEN keys ELSE Append(keys, date_key))

\* the keys of sessions_by_date, in insertion order
DateKeys(ss) == GroupDates(ss, <<>>)

\* the iteration without its last line: longest_streak is raised only where
\* a run breaks
StreakStepLongestOnBreak(dates, i, st) ==
    LET date == dates[i + 1]
    IN  IF i = 0 /\ (date = Today \/ date = Today - 1)
        THEN [st EXCEPT !.temp_streak = 1, !.current_streak = 1]
        ELSE IF i > 0
        THEN IF dates[i] - date = 1
             THEN [st EXCEPT !.temp_streak = st.temp_streak + 1,
                             !.current_streak =
                                 IF i = 1 THEN st.temp_streak + 1 ELSE st.current_streak]
             ELSE [st EXCEPT !.longest_streak = Max2(st.longest_streak, st.temp_streak),
                             !.temp_streak = 1]
        ELSE st

\* one iteration of `for i, date in enumerate(dates)`; i counts from 0
StreakStep(dates, i, st) ==
    LET date == dates[i + 1]
        branch ==
            IF i = 0 /\ date = Today
            THEN [st EXCEPT !.temp_streak = 1, !.current_streak = 1]
            ELSE IF i = 0 /\ date = Today - 1
            THEN [st EXCEPT !.temp_streak = 1, !.current_streak = 1]
            ELSE IF i > 0
            THEN LET prev_date == dates[i]
                 IN  IF prev_date - date = 1
                     THEN [st EXCEPT !.temp_streak = st.temp_streak + 1,
                                     !.current_streak =
                                         IF i = 1 THEN st.temp_streak + 1
                                                  ELSE st.current_streak]
                     ELSE [st EXCEPT !.longest_streak =
                                         Max2(st.longest_streak, st.temp_streak),
                                     !.temp_streak = 1]
            ELSE st
    IN  [branch EXCEPT !.longest_streak = Max2(branch.longest_streak, branch.temp_streak)]

RECURSIVE StreakLoop(_, _, _)
StreakLoop(dates, i, st) ==
    IF i >= Len(dates) THEN st ELSE StreakLoop(dates, i + 1, StreakStep(dates, i, st))

\* get_streak after its query: ss is the result of the query
StreakOf(ss) ==
    IF ss = <<>>
    THEN [current_streak |-> 0, longest_streak |-> 0]
    ELSE LET dates == SortedDesc(DateKeys(ss))
             st == StreakLoop(dates, 0,
                       [current_streak |-> 0, longest_streak |-> 0, temp_streak |-> 0])
         IN  [current_streak |-> st.current_streak,
              longest_streak |-> st.longest_streak]

\* the body of get_streak for the authenticated user u
get_streak(u) == StreakOf(NewestFirst(UserSessions(u)))

GetStreak(u) ==
    /\ response' = [op |-> "get_streak", user |-> u,
                    current_streak |-> get_streak(u).current_streak,
                    longest_streak |-> get_streak(u).longest_streak]
    /\ UNCHANGED <<now, subjects, sessions, calls, audio_notes, pending>>

----------------------------------------------------------------------------
(* Rounding *)

Abs(x) == IF x < 0 THEN -x ELSE x

\* round(n / d) to an integer for n >= 0, d > 0; a tie goes to the even
\* neighbour, as Python's round does
RoundDiv(n, d) ==
    LET q == n \div d
        r == n % d
    IN  IF 2 * r < d THEN q
        ELSE IF 2 * r > d THEN q + 1
        ELSE IF q % 2 = 0 THEN q ELSE q + 1

----------------------------------------------------------------------------
(* GET /sessions/analytics *)

\* the same filter with the lower comparison strict
InWindowStrictStart(u, s, start_date, end_date) ==
    /\ OwnedBy(u, s)
    /\ s.timestamp > start_date
    /\ s.timestamp <= end_date

\* the filter without its lower bound: timestamp <= end_date only
InWindowNoStart(u, s, start_date, end_date) ==
    /\ OwnedBy(u, s)
    /\ s.timestamp <= end_date

\* the filter of the analytics query: owner, timestamp >= start_date,
\* timestamp <= end_date
InWindow(u, s, start_date, end_date) ==
    /\ OwnedBy(u, s)
    /\ s.timestamp >= start_date
    /\ s.timestamp <= end_date

WindowSessions(u, start_date, end_date) ==
    SelectSeq(sessions, LAMBDA s : InWindow(u, s, start_date, end_date))

\* bucket['time'] = session.time_spent: the bucket keeps the last value only
AddToBucketOverwriting(bucket, time_spent) ==
    [bucket EXCEPT !.time = time_spent, !.sessions = bucket.sessions + 1]

\* bucket['time'] += session.time_spent; bucket['sessions'] += 1
AddToBucket(bucket, time_spent) ==
    [bucket EXCEPT !.time = bucket.time + time_spent, !.sessions = bucket.sessions + 1]

\* a new key goes to the front of the dict instead of its end
AccumulateNewKeyFirst(buckets, key, time_spent) ==
    IF \E i \in 1..Len(buckets) : buckets[i].key = key
    THEN [i \in 1..Len(buckets) |->
            IF buckets[i].key = key THEN AddToBucket(buckets[i], time_spent)
                                    ELSE buckets[i]]
    ELSE <<AddToBucket([key |-> key, time |-> 0, sessions |-> 0], time_spent)>> \o buckets

\* one pass of a grouping loop over a dict kept in insertion order:
\* buckets is the dict so far, as a sequence of [key, time, sessions]
Accumulate(buckets, key, time_spent) ==
    IF \E i \in 1..Len(buckets) : buckets[i].key = key
    THEN [i \in 1..Len(buckets) |->
            IF buckets[i].key = key THEN AddToBucket(buckets[i], time_spent)
                                    ELSE buckets[i]]
    ELSE Append(buckets, AddToBucket([key |-> key, time |-> 0, sessions |-> 0], time_spent))

RECURSIVE DailyLoop(_, _)
DailyLoop(ss, daily_data) ==
    IF ss = <<>> THEN daily_data
    ELSE DailyLoop(Tail(ss),
             Accumulate(daily_data, DateOf(Head(ss).timestamp), Head(ss).time_spent))

RECURSIVE SubjectLoop(_, _)
SubjectLoop(ss, subject_data) ==
    IF ss = <<>> THEN subject_data
    ELSE SubjectLoop(Tail(ss),
             Accumulate(subject_data, SubjectById(Head(ss).subject_id).name,
                        Head(ss).time_spent))

TimesOf(ss) == [i \in 1..Len(ss) |-> ss[i].time_spent]

\* [session.focus_level or 0 for session in subject.study_sessions]
FocusLevelsOrZero(ss) ==
    [i \in 1..Len(ss) |-> IF ss[i].focus_level = None THEN 0 ELSE ss[i].focus_level]

\* the comprehension without its `if`: every session counts, an absent level
\* as 0
FocusLevelsAbsentAsZero(ss) ==
    [i \in 1..Len(ss) |-> IF ss[i].focus_level = None THEN 0 ELSE ss[i].focus_level]

\* [s.focus_level for s in sessions if s.focus_level is not None]
FocusLevelsNotNone(ss) ==
    LET present == SelectSeq(ss, LAMBDA s : s.focus_level /= None)
    IN  [i \in 1..Len(present) |-> present[i].focus_level]

\* sum(levels) / len(levels) if levels else 0, then round(avg, 1): in tenths
AverageTenths(levels) ==
    IF levels = <<>> THEN 0 ELSE RoundDiv(10 * SumSeq(levels), Len(levels))

\* the response built from the selected sessions and the two dicts
analytics(u, days, start_date, end_date, ss, daily_data, subject_data) ==
    LET total_time == SumSeq(TimesOf(ss))
        total_sessions == Len(ss)
    IN  [op |-> "get_analytics", user |-> u,
         period |-> [start_date |-> start_date, end_date |-> end_date, days |-> days],
         summary |-> [total_time |-> total_time,
                      total_sessions |-> total_sessions,
                      average_focus_level |-> AverageTenths(FocusLevelsNotNone(ss)),
                      average_time_per_session |->
                          IF total_sessions > 0 THEN RoundDiv(total_time, total_sessions)
                                                ELSE 0],
         daily_breakdown |-> daily_data,
         subject_breakdown |-> subject_data]

get_analytics(u, days) ==
    LET end_date == now
        start_date == end_date - Days(days)
        ss == WindowSessions(u, start_date, end_date)
    IN  analytics(u, days, start_date, end_date, ss,
                  DailyLoop(ss, <<>>), SubjectLoop(ss, <<>>))

\* the handler also deletes the sessions of the user that are older than the
\* window it reports on
GetAnalyticsPurging(u, days) ==
    /\ response' = get_analytics(u, days)
    /\ sessions' = SelectSeq(sessions, LAMBDA s :
                        ~(OwnedBy(u, s) /\ s.timestamp < now - Days(days)))
    /\ UNCHANGED <<now, subjects, calls, audio_notes, pending>>

GetAnalytics(u, days) ==
    /\ response' = get_analytics(u, days)
    /\ UNCHANGED <<now, subjects, sessions, calls, audio_notes, pending>>

----------------------------------------------------------------------------
(* GET /ai/weekly-insights *)

WeeklyDays == 7

\* JSON null in the place of a subject name
NullName == "null"

\* `if session.focus_level:` keeps a level that is neither None nor 0
Truthy(focus_level) == focus_level /= None /\ focus_level /= 0

\* [s.focus_level for s in sessions if s.focus_level]
FocusLevelsTruthy(ss) ==
    LET present == SelectSeq(ss, LAMBDA s : Truthy(s.focus_level))
    IN  [i \in 1..Len(present) |-> present[i].focus_level]

\* one pass of the loop of get_study_data_for_ai over subject_sessions
AccumulateSubject(groups, s) ==
    LET subject_name == SubjectById(s.subject_id).name
        add(g) == [g EXCEPT !.total_time = g.total_time + s.time_spent,
                            !.sessions = g.sessions + 1,
                            !.focus_levels =
                                IF Truthy(s.focus_level)
                                THEN Append(g.focus_levels, s.focus_level)
                                ELSE g.focus_levels]
    IN  IF \E i \in 1..Len(groups) : groups[i].key = subject_name
        THEN [i \in 1..Len(groups) |->
                IF groups[i].key = subject_name THEN add(groups[i]) ELSE groups[i]]
        ELSE Append(groups, add([key |-> subject_name, total_time |-> 0,
                                 sessions |-> 0, focus_levels |-> <<>>]))

RECURSIVE StudyDataLoop(_, _)
StudyDataLoop(ss, groups) ==
    IF ss = <<>> THEN groups
    ELSE StudyDataLoop(Tail(ss), AccumulateSubject(groups, Head(ss)))

\* study_data['subjects'] of get_study_data_for_ai(user_id, days)
get_study_data_for_ai(u, days) ==
    StudyDataLoop(WindowSessions(u, now - Days(days), now), <<>>)

\* max(subjects.items(), key=total_time): the first of the largest
MostStudied(groups) ==
    LET i == CHOOSE i \in 1..Len(groups) :
                /\ \A j \in 1..Len(groups) : groups[j].total_time <= groups[i].total_time
                /\ \A j \in 1..(i - 1) : groups[j].total_time < groups[i].total_time
    IN  [name |-> groups[i].key, time |-> groups[i].total_time]

\* min(subjects.items(), key=total_time): the first of the smallest
LeastStudied(groups) ==
    LET i == CHOOSE i \in 1..Len(groups) :
                /\ \A j \in 1..Len(groups) : groups[j].total_time >= groups[i].total_time
                /\ \A j \in 1..(i - 1) : groups[j].total_time > groups[i].total_time
    IN  [name |-> groups[i].key, time |-> groups[i].total_time]

RECURSIVE Flatten(_)
Flatten(ss) == IF ss = <<>> THEN <<>> ELSE Head(ss) \o Flatten(Tail(ss))

\* the response built from study_data['subjects']
weekly_insights(u, groups) ==
    LET all_focus_levels == Flatten([i \in 1..Len(groups) |-> groups[i].focus_levels])
    IN  [op |-> "get_weekly_insights", user |-> u,
         total_study_time |-> SumSeq([i \in 1..Len(groups) |-> groups[i].total_time]),
         total_sessions |-> SumSeq([i \in 1..Len(groups) |-> groups[i].sessions]),
         average_focus_level |-> AverageTenths(all_focus_levels),
         most_studied_subject |->
             IF groups /= <<>> THEN MostStudied(groups) ELSE [name |-> NullName, time |-> 0],
         least_studied_subject |->
             IF groups /= <<>> THEN LeastStudied(groups) ELSE [name |-> NullName, time |-> 0],
         subjects_studied |-> Len(groups)]

get_weekly_insights(u) == weekly_insights(u, get_study_data_for_ai(u, WeeklyDays))

GetWeeklyInsights(u) ==
    /\ response' = get_weekly_insights(u)
    /\ UNCHANGED <<now, subjects, sessions, calls, audio_notes, pending>>

----------------------------------------------------------------------------
(* GET /ai/suggestions *)

\* The answer is the fixed text when the window holds no session of the user;
\* otherwise it is what the language service returned, or the fixed structure
\* built around its text when that is not JSON.  days is the parameter of the
\* request.
GetSuggestions(u, days, suggestions) ==
    /\ LET groups == get_study_data_for_ai(u, days)
           total_sessions == SumSeq([i \in 1..Len(groups) |-> groups[i].sessions])
       IN  response' = [op |-> "get_suggestions", status |-> 200, user |-> u,
                        days |-> days,
                        suggestions |-> IF total_sessions = 0
                                        THEN "no study data available yet"
                                        ELSE suggestions]
    /\ UNCHANGED <<now, subjects, sessions, calls, audio_notes, pending>>

----------------------------------------------------------------------------
(* GET /ai/subject-feedback/<subject_id> *)

FeedbackDays == 30

\* the text comes from the language service, or is the fixed text used when
\* the service fails
FeedbackTexts == {"generated", "fallback"}

\* the filter without its window: every session of the subject
InFeedbackWindowAnyTime(s, subject_id) == s.subject_id = subject_id

\* the filter of the feedback query: subject, timestamp >= start_date,
\* timestamp <= end_date, over the last FeedbackDays days
InFeedbackWindow(s, subject_id) ==
    /\ s.subject_id = subject_id
    /\ s.timestamp >= now - Days(FeedbackDays)
    /\ s.timestamp <= now

GetSubjectFeedback(u, subject_id, feedback) ==
    /\ IF ~OwnsSubject(u, subject_id)
       THEN response' = [op |-> "get_subject_feedback", status |-> 404]
       ELSE LET ss == SelectSeq(sessions, LAMBDA s : InFeedbackWindow(s, subject_id))
            IN  IF ss = <<>>
                THEN response' = [op |-> "get_subject_feedback", status |-> 200,
                                  user |-> u, subject_id |-> subject_id,
                                  subject_name |-> SubjectById(subject_id).name,
                                  feedback |-> "no recent study sessions",
                                  has_stats |-> FALSE]
                ELSE response' = [op |-> "get_subject_feedback", status |-> 200,
                                  user |-> u, subject_id |-> subject_id,
                                  subject_name |-> SubjectById(subject_id).name,
                                  feedback |-> feedback,
                                  has_stats |-> TRUE,
                                  stats |-> [total_time |-> SumSeq(TimesOf(ss)),
                                             sessions |-> Len(ss),
                                             average_focus |->
                                                 AverageTenths(FocusLevelsTruthy(ss))]]
    /\ UNCHANGED <<now, subjects, sessions, calls, audio_notes, pending>>

----------------------------------------------------------------------------
(* GET /subjects/stats *)

\* subject.study_sessions
StudySessionsOf(subject_id) == SelectSeq(sessions, LAMBDA s : s.subject_id = subject_id)

\* insert x before the entries with the same total_study_time: ties come out
\* in the reverse of their input order
RECURSIVE InsertByTimeBeforeEqual(_, _)
InsertByTimeBeforeEqual(x, s) ==
    IF s = <<>> THEN <<x>>
    ELSE IF Head(s).total_study_time > x.total_study_time
         THEN <<Head(s)>> \o InsertByTimeBeforeEqual(x, Tail(s))
    ELSE <<x>> \o s

\* insert x by (total_study_time descending, id ascending): ties come out in
\* the order of their ids, whatever their input order
RECURSIVE InsertByTimeThenId(_, _)
InsertByTimeThenId(x, s) ==
    IF s = <<>> THEN <<x>>
    ELSE IF \/ Head(s).total_study_time > x.total_study_time
            \/ Head(s).total_study_time = x.total_study_time /\ Head(s).id < x.id
         THEN <<Head(s)>> \o InsertByTimeThenId(x, Tail(s))
    ELSE <<x>> \o s

\* insert x into a sequence sorted by total_study_time descending, after the
\* entries with the same total_study_time
RECURSIVE InsertByTime(_, _)
InsertByTime(x, s) ==
    IF s = <<>> THEN <<x>>
    ELSE IF Head(s).total_study_time >= x.total_study_time
         THEN <<Head(s)>> \o InsertByTime(x, Tail(s))
    ELSE <<x>> \o s

\* stats.sort(key=total_study_time, reverse=True): stable
RECURSIVE SortByTimeDesc(_)
SortByTimeDesc(s) ==
    IF s = <<>> THEN <<>>
    ELSE InsertByTime(s[Len(s)], SortByTimeDesc(SubSeq(s, 1, Len(s) - 1)))

\* the entry of one subject in the list of get_subject_stats
SubjectStat(subject) ==
    LET ss == StudySessionsOf(subject.id)
    IN  [id |-> subject.id,
         name |-> subject.name,
         total_study_time |-> SumSeq(TimesOf(ss)),
         session_count |-> Len(ss),
         average_focus_level |-> AverageTenths(FocusLevelsOrZero(ss)),
         last_studied |->
             IF ss /= <<>> THEN MaxOfSeq([i \in 1..Len(ss) |-> ss[i].timestamp]) ELSE None]

\* the list `stats` before it is sorted: one entry for each subject of the
\* user, in the order of the query
UnsortedStats(u) ==
    LET mine == SelectSeq(subjects, LAMBDA s : s.user_id = u)
    IN  [i \in 1..Len(mine) |-> SubjectStat(mine[i])]

get_subject_stats(u) == SortByTimeDesc(UnsortedStats(u))

GetSubjectStats(u) ==
    /\ response' = [op |-> "get_subject_stats", user |-> u, stats |-> get_subject_stats(u)]
    /\ UNCHANGED <<now, subjects, sessions, calls, audio_notes, pending>>

----------------------------------------------------------------------------
(* Aggregation requests of several users, run by threads step by step *)

\* one module-level set of dicts that every invocation fills
SharedFrame(u) == 1

\* the frame that holds daily_data, subject_data and subject_sessions of the
\* request of user u: they are locals, each invocation has its own
Frame(u) == u

AllIdle == \A u \in Users : calls[u].pc = "idle"

\* get_analytics up to its query
BeginAnalytics(u, days) ==
    /\ calls[u].pc = "idle"
    /\ calls' = [calls EXCEPT
                    ![u] = [IdleCall EXCEPT
                              !.pc = "daily", !.days = days, !.i = 1,
                              !.rows = WindowSessions(u, now - Days(days), now)],
                    ![Frame(u)].daily_data = <<>>]
    /\ UNCHANGED <<now, subjects, sessions, response, audio_notes, pending>>

\* one pass of the loop that fills daily_data, or the end of that loop
DailyStep(u) ==
    /\ calls[u].pc = "daily"
    /\ LET c == calls[u]
       IN  IF c.i <= Len(c.rows)
           THEN calls' = [calls EXCEPT
                            ![Frame(u)].daily_data =
                                Accumulate(@, DateOf(c.rows[c.i].timestamp),
                                           c.rows[c.i].time_spent),
                            ![u].i = c.i + 1]
           ELSE calls' = [calls EXCEPT
                            ![u].pc = "subject",
                            ![u].i = 1,
                            ![Frame(u)].subject_data = <<>>]
    /\ UNCHANGED <<now, subjects, sessions, response, audio_notes, pending>>

\* one pass of the loop that fills subject_data, or the response
SubjectStep(u) ==
    /\ calls[u].pc = "subject"
    /\ LET c == calls[u]
       IN  IF c.i <= Len(c.rows)
           THEN /\ calls' = [calls EXCEPT
                                ![Frame(u)].subject_data =
                                    Accumulate(@, SubjectById(c.rows[c.i].subject_id).name,
                                               c.rows[c.i].time_spent),
                                ![u].i = c.i + 1]
                /\ UNCHANGED response
           ELSE /\ response' = analytics(u, c.days, now - Days(c.days), now, c.rows,
                                         calls[Frame(u)].daily_data,
                                         calls[Frame(u)].subject_data)
                /\ calls' = [calls EXCEPT ![u] = IdleCall]
    /\ UNCHANGED <<now, subjects, sessions, audio_notes, pending>>

\* get_weekly_insights up to the query of get_study_data_for_ai
BeginWeekly(u) ==
    /\ calls[u].pc = "idle"
    /\ calls' = [calls EXCEPT
                    ![u] = [IdleCall EXCEPT
                              !.pc = "grouping", !.days = WeeklyDays, !.i = 1,
                              !.rows = WindowSessions(u, now - Days(WeeklyDays), now)],
                    ![Frame(u)].subject_sessions = <<>>]
    /\ UNCHANGED <<now, subjects, sessions, response, audio_notes, pending>>

\* one pass of the loop that fills subject_sessions, or the response
GroupingStep(u) ==
    /\ calls[u].pc = "grouping"
    /\ LET c == calls[u]
       IN  IF c.i <= Len(c.rows)
           THEN /\ calls' = [calls EXCEPT
                                ![Frame(u)].subject_sessions =
                                    AccumulateSubject(@, c.rows[c.i]),
                                ![u].i = c.i + 1]
                /\ UNCHANGED response
           ELSE /\ response' = weekly_insights(u, calls[Frame(u)].subject_sessions)
                /\ calls' = [calls EXCEPT ![u] = IdleCall]
    /\ UNCHANGED <<now, subjects, sessions, audio_notes, pending>>

----------------------------------------------------------------------------
(* POST /subjects and PUT /subjects/<subject_id>, run by threads in two     *)
(* steps: the queries up to the existence check, then the write and commit *)

\* what a request in the middle of its handler holds
Request(op, u) ==
    [op |-> op, user |-> u, name |-> "", subject_id |-> 0,
     total_subjects |-> 0, total_sessions |-> 0, total_audio_notes |-> 0]

RemoveAt(s, k) == SubSeq(s, 1, k - 1) \o SubSeq(s, k + 1, Len(s))

\* create_subject up to `if existing_subject:`
CheckCreateSubject(u, name, maxSubjects) ==
    /\ Len(subjects) + Len(pending) < maxSubjects
    /\ IF NameTaken(u, name)
       THEN /\ response' = [op |-> "create_subject", status |-> 409]
            /\ UNCHANGED pending
       ELSE /\ pending' = Append(pending,
                              [Request("create_subject", u) EXCEPT !.name = name])
            /\ UNCHANGED response
    /\ UNCHANGED <<now, subjects, sessions, calls, audio_notes>>

\* create_subject from `subject = Subject(...)` to its response
CommitCreateSubject(k) ==
    /\ k \in 1..Len(pending)
    /\ pending[k].op = "create_subject"
    /\ subjects' = Append(subjects,
                      [id |-> NextId(subjects), name |-> pending[k].name,
                       user_id |-> pending[k].user])
    /\ response' = [op |-> "create_subject", status |-> 201]
    /\ pending' = RemoveAt(pending, k)
    /\ UNCHANGED <<now, sessions, calls, audio_notes>>

\* update_subject with a name in its body, up to `if existing_subject:`
CheckUpdateSubject(u, subject_id, name, maxPending) ==
    /\ Len(pending) < maxPending
    /\ IF ~OwnsSubject(u, subject_id)
       THEN /\ response' = [op |-> "update_subject", status |-> 404]
            /\ UNCHANGED pending
       ELSE IF name /= SubjectById(subject_id).name /\ NameTaken(u, name)
       THEN /\ response' = [op |-> "update_subject", status |-> 409]
            /\ UNCHANGED pending
       ELSE /\ pending' = Append(pending,
                              [Request("update_subject", u) EXCEPT
                                  !.name = name, !.subject_id = subject_id])
            /\ UNCHANGED response
    /\ UNCHANGED <<now, subjects, sessions, calls, audio_notes>>

\* update_subject from `subject.name = data['name']` to its response
CommitUpdateSubject(k) ==
    /\ k \in 1..Len(pending)
    /\ pending[k].op = "update_subject"
    /\ subjects' = [i \in 1..Len(subjects) |->
                        IF subjects[i].id = pending[k].subject_id
                        THEN [subjects[i] EXCEPT !.name = pending[k].name]
                        ELSE subjects[i]]
    /\ response' = [op |-> "update_subject", status |-> 200]
    /\ pending' = RemoveAt(pending, k)
    /\ UNCHANGED <<now, sessions, calls, audio_notes>>

----------------------------------------------------------------------------
(* GET /admin/dashboard *)

TopLimit == 10

Min2(a, b) == IF a <= b THEN a ELSE b

\* the elements of a finite set of integers, ascending
RECURSIVE Ascending(_)
Ascending(S) ==
    IF S = {} THEN <<>>
    ELSE LET m == CHOOSE x \in S : \A y \in S : x <= y
         IN  <<m>> \o Ascending(S \ {m})

\* sessions since thirty_days_ago, grouped by date and counted, by date
daily_sessions ==
    LET recent == SelectSeq(sessions, LAMBDA s : s.timestamp >= now - Days(FeedbackDays))
        dates == Ascending({DateOf(recent[i].timestamp) : i \in 1..Len(recent)})
    IN  [k \in 1..Len(dates) |->
            [date |-> dates[k],
             count |-> Len(SelectSeq(recent, LAMBDA s : DateOf(s.timestamp) = dates[k]))]]

\* Subject joined to StudySession, grouped by subject: one row for each
\* subject of any owner that has a session
JoinedSubjects ==
    LET joined == SelectSeq(subjects, LAMBDA g : StudySessionsOf(g.id) /= <<>>)
    IN  [i \in 1..Len(joined) |->
            [name |-> joined[i].name,
             sessions |-> Len(StudySessionsOf(joined[i].id)),
             total_time |-> SumSeq(TimesOf(StudySessionsOf(joined[i].id)))]]

\* insert a row into rows ordered by total_time descending.  ORDER BY leaves
\* the order of rows with the same total_time to the database: laterFirst
\* tells whether the row goes before or after the rows with its total_time.
RECURSIVE InsertRow(_, _, _)
InsertRow(x, s, laterFirst) ==
    IF s = <<>> THEN <<x>>
    ELSE IF \/ Head(s).total_time > x.total_time
            \/ Head(s).total_time = x.total_time /\ ~laterFirst
         THEN <<Head(s)>> \o InsertRow(x, Tail(s), laterFirst)
    ELSE <<x>> \o s

\* .order_by(func.sum(StudySession.time_spent).desc())
RECURSIVE OrderByTotalDesc(_, _)
OrderByTotalDesc(s, laterFirst) ==
    IF s = <<>> THEN <<>>
    ELSE InsertRow(s[Len(s)],
                   OrderByTotalDesc(SubSeq(s, 1, Len(s) - 1), laterFirst),
                   laterFirst)

\* .limit(n)
Limit(s, n) == SubSeq(s, 1, Min2(n, Len(s)))

\* the limit taken before the order: the first TopLimit groups, then ordered
top_subjects_limit_first(laterFirst) ==
    OrderByTotalDesc(Limit(JoinedSubjects, TopLimit), laterFirst)

top_subjects(laterFirst) ==
    Limit(OrderByTotalDesc(JoinedSubjects, laterFirst), TopLimit)

\* The dashboard of an admin.  The counts of users created and of audio notes
\* recorded are left out: the model holds neither creation dates of users
\* nor audio notes.
AdminDashboard(u, laterFirst) ==
    /\ IF u \notin Admins
       THEN response' = [op |-> "admin_dashboard", status |-> 403]
       ELSE response' =
                [op |-> "admin_dashboard", status |-> 200,
                 overview |-> [total_users |-> Cardinality(Users),
                               total_subjects |-> Len(subjects),
                               total_sessions |-> Len(sessions)],
                 recent_activity |->
                     [new_sessions |->
                         Len(SelectSeq(sessions,
                                 LAMBDA s : s.timestamp >= now - Days(WeeklyDays)))],
                 daily_activity |-> daily_sessions,
                 top_subjects |-> top_subjects(laterFirst)]
    /\ UNCHANGED <<now, subjects, sessions, calls, audio_notes, pending>>

----------------------------------------------------------------------------
(* The calendar specification: two users, one subject name, sessions that  *)
(* differ only in their owner and their instant, over MaxStreakNow ticks;  *)
(* the handlers that depend on dates and instants.                         *)

DaysInputs == {1, 2}

StreakNext ==
    \/ Tick(MaxStreakNow)
    \/ \E u \in Users : CreateSubject(u, "math", MaxSubjects)
    \/ \E u \in Users, sid \in 1..MaxSubjects :
           CreateSession(u, sid, 100, None, MaxStreakSessions)
    \/ \E u \in Users : GetStreak(u)
    \/ \E u \in Users, days \in DaysInputs : GetAnalytics(u, days)

SpecStreak == Init /\ [][StreakNext]_vars

----------------------------------------------------------------------------
(* The totals specification: one user, subjects of both names, sessions    *)
(* that differ in subject, time spent and instant, over MaxNow ticks.      *)

TimeInputs == {0, 25, 100}

Next ==
    \/ Tick(MaxNow)
    \/ \E name \in Names : CreateSubject(1, name, MaxSubjects)
    \/ \E sid \in 0..MaxSubjects, time_spent \in TimeInputs :
           CreateSession(1, sid, time_spent, None, MaxSessions)
    \/ GetAnalytics(1, 1)
    \/ GetWeeklyInsights(1)

Spec == Init /\ [][Next]_vars

\* The requests that change stored sessions: one owner creating sessions and
\* both users sending updates, with valid and invalid times and focus levels.
TimeUpdates == {Missing, 0, 25, 100}
FocusUpdates == {Missing, None, 0, 6, 11}
FocusCreates == {None, 0, 6, 11}

UpdateNext ==
    \/ CreateSubject(1, "math", MaxSubjects)
    \/ \E sid \in 1..MaxSubjects, time_spent \in TimeInputs, focus_level \in FocusCreates :
           CreateSession(1, sid, time_spent, focus_level, MaxUpdateSessions)
    \/ \E u \in Users, session_id \in 1..MaxUpdateSessions,
          time_spent \in TimeUpdates, focus_level \in FocusUpdates :
           UpdateSession(u, session_id, time_spent, focus_level)

SpecUpdate == Init /\ [][UpdateNext]_vars

\* The ranking of subjects: one user with up to three subjects whose sessions
\* add up to equal or to different totals.
RankNames == {"math", "art", "law"}
RankTimes == {25, 100}

RankNext ==
    \/ \E name \in RankNames : CreateSubject(1, name, MaxSubjects)
    \/ \E sid \in 1..MaxSubjects, time_spent \in RankTimes :
           CreateSession(1, sid, time_spent, None, MaxRankSessions)
    \/ GetSubjectStats(1)

SpecRank == Init /\ [][RankNext]_vars

\* The ranking across owners: the two users take turns in creating a subject
\* and logging one session of 25 or 100 for it, until there are more
\* subjects with sessions than the dashboard lists.
TopNames == <<"n1", "n2", "n3", "n4", "n5", "n6">>

TopNext ==
    \/ /\ Len(sessions) = Len(subjects)
       /\ CreateSubject(1 + (Len(subjects) % 2),
                        TopNames[1 + (Len(subjects) \div 2)], MaxTopSubjects)
    \/ \E time_spent \in RankTimes :
           CreateSession(SubjectById(Len(subjects)).user_id, Len(subjects),
                         time_spent, None, Len(subjects))
    \/ \E u \in Users, laterFirst \in BOOLEAN : AdminDashboard(u, laterFirst)

SpecTop == Init /\ [][TopNext]_vars

\* Concurrent aggregation: the store is built while no request is running;
\* then each user has a get_analytics or get_weekly_insights request run, one
\* step of one request at a time, in any order.
CallNext ==
    \/ AllIdle /\ Advance(Days(1), Days(MaxCallDays))
    \/ \E u \in Users : AllIdle /\ CreateSubject(u, "math", MaxSubjects)
    \/ \E u \in Users, sid \in 1..MaxSubjects :
           AllIdle /\ CreateSession(u, sid, 100, None, MaxCallSessions)
    \/ \E u \in Users : BeginAnalytics(u, 1)
    \/ \E u \in Users : DailyStep(u)
    \/ \E u \in Users : SubjectStep(u)
    \/ \E u \in Users : BeginWeekly(u)
    \/ \E u \in Users : GroupingStep(u)

SpecCalls == Init /\ [][CallNext]_vars

\* Subjects created and renamed by requests whose two steps interleave.
SubjectsNext ==
    \/ \E u \in Users, name \in Names : CheckCreateSubject(u, name, MaxSubjects)
    \/ \E k \in 1..MaxPending : CommitCreateSubject(k)
    \/ \E u \in Users, sid \in 1..MaxSubjects, name \in Names :
           CheckUpdateSubject(u, sid, name, MaxPending)
    \/ \E k \in 1..MaxPending : CommitUpdateSubject(k)

SpecSubjects == Init /\ [][SubjectsNext]_vars

\* Grouping: one user with two subjects and sessions of two focus levels,
\* on several dates.
GroupFocus == {6, 8}

GroupNext ==
    \/ Tick(MaxGroupNow)
    \/ \E name \in Names : CreateSubject(1, name, MaxSubjects)
    \/ \E sid \in 1..MaxSubjects, focus_level \in GroupFocus :
           CreateSession(1, sid, 100, focus_level, MaxGroupSessions)
    \/ GetAnalytics(1, 1)
    \/ GetWeeklyInsights(1)

SpecGroup == Init /\ [][GroupNext]_vars

\* The windows of 7 and 30 days: one user whose clock also jumps by the length
\* of a window, so that a session can lie on the first instant of a window
\* or one tick before it; days parameters of 1, 0 and -1.
Horizon == Days(FeedbackDays) + Days(WeeklyDays) + MaxLate
WindowDays == {-1, 0, 1}

WindowNext ==
    \/ Tick(MaxLate)
    \/ Advance(Days(WeeklyDays), Horizon)
    \/ Advance(Days(FeedbackDays), Horizon)
    \/ CreateSubject(1, "math", MaxSubjects)
    \/ \E sid \in 1..MaxSubjects :
           CreateSession(1, sid, 100, None, MaxWindowSessions)
    \/ \E days \in WindowDays : GetAnalytics(1, days)
    \/ \E days \in WindowDays, suggestions \in FeedbackTexts :
           GetSuggestions(1, days, suggestions)
    \/ GetWeeklyInsights(1)
    \/ \E sid \in 1..MaxSubjects, feedback \in FeedbackTexts :
           GetSubjectFeedback(1, sid, feedback)
    \/ GetStreak(1)
    \/ GetSubjectStats(1)
    \/ \E u \in Users, laterFirst \in BOOLEAN : AdminDashboard(u, laterFirst)

SpecWindow == Init /\ [][WindowNext]_vars

----------------------------------------------------------------------------
(* The focus specification: one user, one subject, sessions that differ in *)
(* focus level and instant, over MaxFocusNow ticks.                        *)

FocusInputs == {None, 0, 6, 8, 11}

FocusNext ==
    \/ Tick(MaxFocusNow)
    \/ CreateSubject(1, "math", MaxSubjects)
    \/ \E sid \in 1..MaxSubjects, focus_level \in FocusInputs :
           CreateSession(1, sid, 100, focus_level, MaxFocusSessions)
    \/ GetAnalytics(1, 1)
    \/ GetWeeklyInsights(1)
    \/ \E sid \in 1..MaxSubjects, feedback \in FeedbackTexts :
           GetSubjectFeedback(1, sid, feedback)
    \/ GetSubjectStats(1)

SpecFocus == Init /\ [][FocusNext]_vars

----------------------------------------------------------------------------
(* Statements about get_streak *)

\* the stored sessions of user u, as a set of rows
SessionsOf(u) ==
    {s \in {sessions[i] : i \in 1..Len(sessions)} :
        \E j \in 1..Len(subjects) :
            subjects[j].id = s.subject_id /\ subjects[j].user_id = u}

\* the calendar dates on which user u has at least one session
DatesOf(u) == {s.timestamp \div TicksPerDay : s \in SessionsOf(u)}

MaxOfSet(S) == CHOOSE x \in S : \A y \in S : y <= x

\* the length of the longest run of consecutive dates inside D
LongestRun(D) ==
    IF D = {} THEN 0
    ELSE MaxOfSet({b - a + 1 : <<a, b>> \in {p \in D \X D : p[1] <= p[2] /\ p[1]..p[2] \subseteq D}})

\* the length of the run of consecutive dates of D that ends at d
RunEndingAt(D, d) ==
    MaxOfSet({d - a + 1 : a \in {x \in D : x <= d /\ x..d \subseteq D}})

StreakAnswered == response.op = "get_streak"

\* C1: when the session dates of the user are exactly the N >= 1 consecutive
\* dates today-(N-1) .. today, get_streak answers current = longest = N.
C1_ConsecutiveEndingToday ==
    StreakAnswered =>
        LET D == DatesOf(response.user)
            N == Cardinality(D)
        IN  (N >= 1 /\ D = (Today - (N - 1))..Today) =>
                /\ response.current_streak = N
                /\ response.longest_streak = N

\* C2: for a non-empty set of session dates, longest_streak is the length of
\* the longest run of consecutive dates, whether or not it touches today.
C2_LongestIsLongestRun ==
    StreakAnswered =>
        LET D == DatesOf(response.user)
        IN  D /= {} => response.longest_streak = LongestRun(D)

\* C3: with no session today and none yesterday, current_streak is 0.
C3_NoRecentSessionNoCurrent ==
    StreakAnswered =>
        LET D == DatesOf(response.user)
        IN  (Today \notin D /\ (Today - 1) \notin D) => response.current_streak = 0

\* C4: when the most recent session date is today or today-1, current_streak
\* is the length of the run of consecutive dates ending at that date.
C4_CurrentIsFirstRun ==
    StreakAnswered =>
        LET D == DatesOf(response.user)
        IN  (D /= {} /\ MaxOfSet(D) \in {Today, Today - 1}) =>
                response.current_streak = RunEndingAt(D, MaxOfSet(D))

\* C5: a user with no sessions at all gets current_streak = 0 and
\* longest_streak = 0, whatever today is.
C5_NoSessionsZeroStreak ==
    StreakAnswered =>
        (SessionsOf(response.user) = {} =>
            /\ response.current_streak = 0
            /\ response.longest_streak = 0)

\* a user without sessions is answered on a later day, while another user
\* has sessions
C5_Witness ==
    /\ StreakAnswered
    /\ SessionsOf(response.user) = {}
    /\ sessions /= <<>>
    /\ Today >= 1
    /\ response.current_streak = 0
    /\ response.longest_streak = 0

\* the sessions of user u, without every session that has an earlier session
\* of u on the same date
OnePerDate(u) ==
    LET ss == SelectSeq(sessions, LAMBDA s : s \in SessionsOf(u))
        keep == {i \in 1..Len(ss) :
                    \A j \in 1..(i - 1) :
                        ss[j].timestamp \div TicksPerDay /= ss[i].timestamp \div TicksPerDay}
    IN  SelectSeq(ss, LAMBDA s : \E i \in keep : ss[i] = s)

\* C6: the answer of get_streak depends only on the set of dates that have a
\* session: it is the answer that the same user would get with a single
\* session on each of those dates, so further sessions on a date that already
\* has one change neither current_streak nor longest_streak.
C6_DateGranularity ==
    StreakAnswered =>
        LET single == StreakOf(NewestFirst(OnePerDate(response.user)))
        IN  /\ response.current_streak = single.current_streak
            /\ response.longest_streak = single.longest_streak

\* the user answered has two sessions on one date, one of them on the day
\* before as well, and a streak of 2
C6_Witness ==
    /\ StreakAnswered
    /\ Cardinality(SessionsOf(response.user)) > Cardinality(DatesOf(response.user))
    /\ Cardinality(DatesOf(response.user)) = 2
    /\ response.current_streak = 2
    /\ response.longest_streak = 2

----------------------------------------------------------------------------
(* Statements about the aggregates *)

RECURSIVE SumTime(_)
SumTime(S) ==
    IF S = {} THEN 0
    ELSE LET s == CHOOSE x \in S : TRUE IN s.time_spent + SumTime(S \ {s})

RECURSIVE SumFocus(_)
SumFocus(S) ==
    IF S = {} THEN 0
    ELSE LET s == CHOOSE x \in S : TRUE IN s.focus_level + SumFocus(S \ {s})

\* the sessions of user u with start <= timestamp <= end
Selected(u, start, end) ==
    {s \in SessionsOf(u) : start <= s.timestamp /\ s.timestamp <= end}

\* a is, in tenths, the mean focus level of the sessions of S that have one
\* (rounded to the nearest tenth), and 0 when no session of S has one
IsMeanOfPresent(a, S) ==
    LET present == {s \in S : s.focus_level /= -1}
    IN  IF present = {} THEN a = 0
        ELSE 2 * Abs(a * Cardinality(present) - 10 * SumFocus(present))
                 <= Cardinality(present)

AnalyticsAnswered == response.op = "get_analytics"

\* the sessions that the analytics response at hand is about
AnalyticsSelected ==
    Selected(response.user, response.period.start_date, response.period.end_date)

\* C7: in a get_analytics response, the 'time' values of subject_breakdown and
\* the 'time' values of daily_breakdown each add up to the total time_spent of
\* the selected sessions.
C7_TimePartition ==
    AnalyticsAnswered =>
        LET by_subject == response.subject_breakdown
            by_date == response.daily_breakdown
        IN  /\ SumSeq([i \in 1..Len(by_subject) |-> by_subject[i].time])
                   = SumTime(AnalyticsSelected)
            /\ SumSeq([i \in 1..Len(by_date) |-> by_date[i].time])
                   = SumTime(AnalyticsSelected)

\* three sessions of different lengths fall into two subjects and two dates
C7_Witness ==
    /\ AnalyticsAnswered
    /\ Cardinality(AnalyticsSelected) = 3
    /\ Len(response.subject_breakdown) = 2
    /\ Len(response.daily_breakdown) = 2
    /\ SumTime(AnalyticsSelected) = 150
    /\ \E i \in 1..2 : response.subject_breakdown[i].time = 125

\* C8: the average focus of get_analytics, get_weekly_insights and
\* get_subject_feedback is the mean over the sessions that have a focus level
\* only, and 0 when no session has one.
C8_FocusMeanOfPresent ==
    /\ AnalyticsAnswered =>
           IsMeanOfPresent(response.summary.average_focus_level, AnalyticsSelected)
    /\ response.op = "get_weekly_insights" =>
           IsMeanOfPresent(response.average_focus_level,
                           Selected(response.user, now - WeeklyDays * TicksPerDay, now))
    /\ (response.op = "get_subject_feedback" /\ response.status = 200
            /\ response.has_stats) =>
           IsMeanOfPresent(response.stats.average_focus,
                           {s \in SessionsOf(response.user) :
                               /\ s.subject_id = response.subject_id
                               /\ now - FeedbackDays * TicksPerDay <= s.timestamp
                               /\ s.timestamp <= now})

\* focus levels 8, absent and 6 are answered with 7.0
C8_Witness ==
    /\ AnalyticsAnswered
    /\ Cardinality(AnalyticsSelected) = 3
    /\ {s.focus_level : s \in AnalyticsSelected} = {8, -1, 6}
    /\ response.summary.average_focus_level = 70

\* C9: in get_subject_stats, average_focus_level of a subject is the mean over
\* the sessions of that subject that have a focus level only.
C9_SubjectStatsFocusMean ==
    response.op = "get_subject_stats" =>
        \A i \in 1..Len(response.stats) :
            IsMeanOfPresent(response.stats[i].average_focus_level,
                            {s \in SessionsOf(response.user) :
                                s.subject_id = response.stats[i].id})

\* C10: get_analytics at instant now with days = d covers start = now - d days
\* to end = now, and aggregates exactly the sessions with
\* start <= timestamp <= end, per date and in total.
C10_WindowInclusive ==
    AnalyticsAnswered =>
        LET start == now - response.period.days * TicksPerDay
            sel == Selected(response.user, start, now)
            by_date == response.daily_breakdown
        IN  /\ response.period.end_date = now
            /\ response.period.start_date = start
            /\ response.summary.total_sessions = Cardinality(sel)
            /\ {by_date[i].key : i \in 1..Len(by_date)}
                   = {s.timestamp \div TicksPerDay : s \in sel}
            /\ \A i \in 1..Len(by_date) :
                   by_date[i].sessions =
                       Cardinality({s \in sel : s.timestamp \div TicksPerDay = by_date[i].key})

\* the user has a session exactly at start, one exactly at end and one before
\* start; the first two are counted
C10_Witness ==
    /\ AnalyticsAnswered
    /\ LET start == now - response.period.days * TicksPerDay
       IN  /\ \E s \in SessionsOf(response.user) : s.timestamp = start
           /\ \E s \in SessionsOf(response.user) : s.timestamp = now
           /\ \E s \in SessionsOf(response.user) : s.timestamp < start
    /\ Cardinality(SessionsOf(response.user)) = 3
    /\ response.summary.total_sessions = 2

----------------------------------------------------------------------------
(* Statements about requests that find nothing in their window *)

\* C11: a windowed request whose days parameter is 0 or negative gets no
\* computed result: an answered get_analytics or get_suggestions request has
\* days >= 1.
C11_NonPositiveDaysRejected ==
    /\ AnalyticsAnswered => response.period.days >= 1
    /\ (response.op = "get_suggestions" /\ response.status = 200) => response.days >= 1

WeeklyAnswered == response.op = "get_weekly_insights"

\* C14: when the user has no session in the last WeeklyDays days,
\* get_weekly_insights answers with totals 0 and the placeholder (no name,
\* time 0) as most and as least studied subject.
C14_NoSessionsPlaceholder ==
    (WeeklyAnswered /\ Selected(response.user, now - Days(WeeklyDays), now) = {}) =>
        /\ response.total_study_time = 0
        /\ response.total_sessions = 0
        /\ response.average_focus_level = 0
        /\ response.subjects_studied = 0
        /\ response.most_studied_subject = [name |-> "null", time |-> 0]
        /\ response.least_studied_subject = [name |-> "null", time |-> 0]

\* the user has sessions, all of them older than the window
C14_Witness ==
    /\ WeeklyAnswered
    /\ SessionsOf(response.user) /= {}
    /\ Selected(response.user, now - Days(WeeklyDays), now) = {}
    /\ response.most_studied_subject.time = 0

FeedbackAnswered == response.op = "get_subject_feedback" /\ response.status = 200

\* the sessions of the subject of the feedback response at hand that lie in
\* the last FeedbackDays days
FeedbackSelected ==
    {s \in {sessions[i] : i \in 1..Len(sessions)} :
        /\ s.subject_id = response.subject_id
        /\ now - Days(FeedbackDays) <= s.timestamp
        /\ s.timestamp <= now}

\* C15: get_subject_feedback answers with the fixed no-data text and without
\* stats when the subject has no session in the last FeedbackDays days, and
\* with stats exactly when it has one.
C15_StatsOnlyWithSessions ==
    FeedbackAnswered =>
        /\ response.has_stats <=> FeedbackSelected /= {}
        /\ ~response.has_stats => response.feedback = "no recent study sessions"

\* the subject has a session, older than the window
C15_Witness ==
    /\ FeedbackAnswered
    /\ ~response.has_stats
    /\ \E i \in 1..Len(sessions) : sessions[i].subject_id = response.subject_id

\* C16: when no session lies in the window, get_analytics answers with all
\* four summary values 0 and with empty daily and subject breakdowns.
C16_EmptyWindowZeros ==
    (AnalyticsAnswered /\ AnalyticsSelected = {}) =>
        /\ response.summary = [total_time |-> 0, total_sessions |-> 0,
                               average_focus_level |-> 0,
                               average_time_per_session |-> 0]
        /\ response.daily_breakdown = <<>>
        /\ response.subject_breakdown = <<>>

\* the user has sessions, all of them outside the window
C16_Witness ==
    /\ AnalyticsAnswered
    /\ SessionsOf(response.user) /= {}
    /\ AnalyticsSelected = {}
    /\ response.summary.total_sessions = 0

----------------------------------------------------------------------------
(* Statements about the ranking of get_subject_stats *)

StatsAnswered == response.op = "get_subject_stats"

\* the place of the subject with this id in the unsorted list
InputPlace(u, id) ==
    CHOOSE i \in 1..Len(UnsortedStats(u)) : UnsortedStats(u)[i].id = id

OutputPlace(out, id) == CHOOSE i \in 1..Len(out) : out[i].id = id

Swap(s, i, j) ==
    [k \in 1..Len(s) |-> IF k = i THEN s[j] ELSE IF k = j THEN s[i] ELSE s[k]]

\* the pairs of places i < j of the unsorted list whose subjects have the
\* same total_study_time
TiedPlaces(u) ==
    {p \in (1..Len(UnsortedStats(u))) \X (1..Len(UnsortedStats(u))) :
        /\ p[1] < p[2]
        /\ UnsortedStats(u)[p[1]].total_study_time
               = UnsortedStats(u)[p[2]].total_study_time}

\* C12: the list of get_subject_stats holds the entries of the unsorted list,
\* by total_study_time descending, and two subjects with the same
\* total_study_time in the order they have in the unsorted list.
C12_DescendingStable ==
    StatsAnswered =>
        LET out == response.stats
            u == response.user
        IN  /\ Len(out) = Len(UnsortedStats(u))
            /\ \A i \in 1..Len(out) : out[i] = UnsortedStats(u)[InputPlace(u, out[i].id)]
            /\ \A i, j \in 1..Len(out) :
                   i < j =>
                       /\ out[i].total_study_time >= out[j].total_study_time
                       /\ out[i].total_study_time = out[j].total_study_time
                              => InputPlace(u, out[i].id) < InputPlace(u, out[j].id)

\* three subjects: the one created last has the largest total and the two
\* before it have the same total, not zero
C12_Witness ==
    /\ StatsAnswered
    /\ Len(response.stats) = 3
    /\ response.stats[1].id = 3
    /\ response.stats[2].total_study_time = response.stats[3].total_study_time
    /\ response.stats[3].total_study_time > 0

\* C13 as stated: with two subjects of the same total_study_time exchanged in
\* the unsorted list, the sort gives the list it gives for the original order.
C13_SwapInsensitive ==
    StatsAnswered =>
        \A p \in TiedPlaces(response.user) :
            SortByTimeDesc(Swap(UnsortedStats(response.user), p[1], p[2])) = response.stats

\* C13, amended: with two subjects of the same total_study_time exchanged in
\* the unsorted list, the sort gives the list of the original order with
\* these two subjects exchanged: they follow the permuted input.
C13_SwapFollowsInput ==
    StatsAnswered =>
        LET out == response.stats
            in == UnsortedStats(response.user)
        IN  \A p \in TiedPlaces(response.user) :
                SortByTimeDesc(Swap(in, p[1], p[2]))
                    = Swap(out, OutputPlace(out, in[p[1]].id), OutputPlace(out, in[p[2]].id))

\* the first and the third subject have the same total, the second another
C13_Witness ==
    /\ StatsAnswered
    /\ Len(response.stats) = 3
    /\ <<1, 3>> \in TiedPlaces(response.user)
    /\ <<1, 2>> \notin TiedPlaces(response.user)

----------------------------------------------------------------------------
(* Statements about the dashboard *)

DashboardAnswered == response.op = "admin_dashboard" /\ response.status = 200

\* the subjects of any owner that have a session
SubjectsWithSessions ==
    {i \in 1..Len(subjects) :
        \E j \in 1..Len(sessions) : sessions[j].subject_id = subjects[i].id}

\* the total time of the sessions of the subject at place i of the table
TotalOf(i) ==
    SumTime({s \in {sessions[j] : j \in 1..Len(sessions)} : s.subject_id = subjects[i].id})

\* C17: top_subjects holds at most 10 entries (as many as there are subjects
\* with sessions, if fewer), each the name, session count and total of a
\* subject of some owner, by total time descending; every subject whose
\* total is greater than the smallest total listed is in the list.
C17_TopSubjects ==
    DashboardAnswered =>
        LET top == response.top_subjects
        IN  /\ Len(top) = Min2(10, Cardinality(SubjectsWithSessions))
            /\ \A k \in 1..(Len(top) - 1) : top[k].total_time >= top[k + 1].total_time
            /\ \A k \in 1..Len(top) :
                   /\ \E i \in SubjectsWithSessions :
                          /\ subjects[i].name = top[k].name
                          /\ TotalOf(i) = top[k].total_time
                   /\ Cardinality({l \in 1..Len(top) : top[l].total_time = top[k].total_time})
                          <= Cardinality({i \in SubjectsWithSessions :
                                             TotalOf(i) = top[k].total_time})
                   /\ Cardinality({i \in SubjectsWithSessions :
                                       TotalOf(i) > top[k].total_time})
                          = Cardinality({l \in 1..Len(top) :
                                            top[l].total_time > top[k].total_time})

\* eleven subjects of two owners have sessions; the first one has a smaller
\* total than the ten that are listed
C17_Witness ==
    /\ DashboardAnswered
    /\ Cardinality(SubjectsWithSessions) = 11
    /\ Len(response.top_subjects) = 10
    /\ TotalOf(1) < response.top_subjects[10].total_time
    /\ \E i, j \in SubjectsWithSessions : subjects[i].user_id /= subjects[j].user_id

----------------------------------------------------------------------------
(* Statements about what the requests leave alone *)

ReadOps == {"get_analytics", "get_streak", "get_weekly_insights",
            "get_subject_stats", "admin_dashboard"}

\* C18: a step that answers get_analytics, get_streak, get_weekly_insights,
\* get_subject_stats or admin_dashboard leaves the stored subjects and
\* sessions as they were.
C18_ReadsLeaveStore ==
    [][response'.op \in ReadOps => (subjects' = subjects /\ sessions' = sessions)]_vars

\* a read request was answered over a store that holds a session older than
\* the window of one day
C18_Witness ==
    /\ response.op \in ReadOps
    /\ \E i \in 1..Len(sessions) : sessions[i].timestamp < now - Days(1)

----------------------------------------------------------------------------
(* Statements about requests that run at the same time *)

\* C19: a get_analytics or get_weekly_insights request whose steps were
\* interleaved with those of a request of another user answers what the
\* request answers when it runs alone over the same store.
C19_AloneResult ==
    /\ AnalyticsAnswered => response = get_analytics(response.user, response.period.days)
    /\ WeeklyAnswered => response = get_weekly_insights(response.user)

\* a request of user 1 that found sessions has been answered while the
\* request of user 2 is in the middle of a loop, with a filled dict
C19_Witness ==
    /\ AnalyticsAnswered \/ WeeklyAnswered
    /\ response.user = 1
    /\ Selected(1, now - Days(1), now) /= {}
    /\ calls[2].pc /= "idle"
    /\ calls[2].i > 1
    /\ calls[2].daily_data /= <<>> \/ calls[2].subject_sessions /= <<>>

----------------------------------------------------------------------------
(* Statements about the stored sessions *)

\* C20: every stored study session has time_spent > 0, whatever create_session
\* and update_session requests were made.
C20_TimeSpentPositive ==
    \A i \in 1..Len(sessions) : sessions[i].time_spent > 0

\* a session was created with one time and updated to another, after an
\* update with time_spent = 0 would have been refused
C20_Witness ==
    /\ response.op = "update_session"
    /\ response.status = 200
    /\ \E i \in 1..Len(sessions) : sessions[i].time_spent = 25
    /\ \E i \in 1..Len(sessions) : sessions[i].time_spent = 100

----------------------------------------------------------------------------
(* More statements about get_streak *)

\* C24: in every get_streak response current_streak <= longest_streak.
C24_CurrentAtMostLongest ==
    StreakAnswered => response.current_streak <= response.longest_streak

\* a current streak of at least two days
C24_Witness ==
    /\ StreakAnswered
    /\ response.current_streak >= 2
    /\ response.longest_streak >= response.current_streak

----------------------------------------------------------------------------
(* Statements about the stored subjects *)

\* C21: no two stored subjects of the same owner have the same name.
C21_NamesUniquePerOwner ==
    \A i, j \in 1..Len(subjects) :
        (i /= j /\ subjects[i].user_id = subjects[j].user_id)
            => subjects[i].name /= subjects[j].name

----------------------------------------------------------------------------
(* Statements about rounding *)

\* a, in tenths, stands for the mean of the focus levels of S rounded to two
\* decimal places
IsMeanToHundredths(a, S) ==
    S = {} \/ 10 * a = RoundDiv(100 * SumFocus(S), Cardinality(S))

\* C22: the averages of get_analytics and get_weekly_insights are rounded to
\* two decimal places: the average focus level is the mean of the present
\* levels to the nearest hundredth, and the average time per session is the
\* total time over the number of sessions to the nearest hundredth.
C22_RoundedToHundredths ==
    /\ AnalyticsAnswered =>
           /\ IsMeanToHundredths(response.summary.average_focus_level,
                                 {s \in AnalyticsSelected : s.focus_level /= -1})
           /\ AnalyticsSelected /= {} =>
                  response.summary.average_time_per_session
                      = RoundDiv(SumTime(AnalyticsSelected), Cardinality(AnalyticsSelected))
    /\ WeeklyAnswered =>
           IsMeanToHundredths(response.average_focus_level,
               {s \in Selected(response.user, now - Days(WeeklyDays), now) :
                   s.focus_level /= -1})

----------------------------------------------------------------------------
(* Statements about grouping *)

FirstPlace(xs, x) == CHOOSE i \in 1..Len(xs) : xs[i] = x /\ \A j \in 1..(i - 1) : xs[j] /= x

\* keys holds each element of xs once, in the order in which the elements
\* first occur in xs
IsFirstSeenOrder(keys, xs) ==
    /\ {keys[i] : i \in 1..Len(keys)} = {xs[i] : i \in 1..Len(xs)}
    /\ \A i, j \in 1..Len(keys) :
           i < j => FirstPlace(xs, keys[i]) < FirstPlace(xs, keys[j])

\* the sessions that the query of a windowed request of user u scans, in the
\* order of the table
Scanned(u, start, end) ==
    SelectSeq(sessions, LAMBDA s : s \in Selected(u, start, end))

NameOf(s) == (CHOOSE g \in {subjects[i] : i \in 1..Len(subjects)} : g.id = s.subject_id).name

\* C23: the keys of daily_breakdown and subject_breakdown of get_analytics
\* and of the subjects of get_study_data_for_ai are the dates and the subject
\* names of the scanned sessions, each once, in first-seen order, and the
\* focus levels of a subject are in the order of its sessions; no scanned
\* session gives an empty mapping.
C23_FirstSeenOrder ==
    /\ AnalyticsAnswered =>
           LET xs == Scanned(response.user, response.period.start_date,
                             response.period.end_date)
               by_date == response.daily_breakdown
               by_subject == response.subject_breakdown
           IN  /\ IsFirstSeenOrder([i \in 1..Len(by_date) |-> by_date[i].key],
                                    [i \in 1..Len(xs) |-> xs[i].timestamp \div TicksPerDay])
               /\ IsFirstSeenOrder([i \in 1..Len(by_subject) |-> by_subject[i].key],
                                    [i \in 1..Len(xs) |-> NameOf(xs[i])])
    /\ WeeklyAnswered =>
           LET xs == Scanned(response.user, now - Days(WeeklyDays), now)
               groups == get_study_data_for_ai(response.user, WeeklyDays)
           IN  /\ IsFirstSeenOrder([i \in 1..Len(groups) |-> groups[i].key],
                                    [i \in 1..Len(xs) |-> NameOf(xs[i])])
               /\ \A k \in 1..Len(groups) :
                      LET of_key == SelectSeq(xs, LAMBDA s :
                                        NameOf(s) = groups[k].key /\ s.focus_level > 0)
                      IN  groups[k].focus_levels
                              = [i \in 1..Len(of_key) |-> of_key[i].focus_level]

\* the subject created second is the first one seen, and two dates are seen
C23_Witness ==
    /\ AnalyticsAnswered
    /\ Len(response.subject_breakdown) = 2
    /\ Len(response.daily_breakdown) = 2
    /\ NameOf(sessions[1]) = response.subject_breakdown[1].key
    /\ sessions[1].subject_id = 2

----------------------------------------------------------------------------
(* More statements about the stored sessions *)

C30_ErrorLeavesSessions ==
    [][(response'.op = "update_session" /\ response'.status \in {400, 404})
           => sessions' = sessions]_vars

\* a request with a valid time_spent and a focus_level of 11 for a session
\* of the caller that has another time_spent was answered 400
C30_Witness ==
    /\ response.op = "update_session"
    /\ response.status = 400
    /\ response.request.time_spent = 25
    /\ response.request.focus_level = 11
    /\ \E i \in 1..Len(sessions) :
           /\ sessions[i].id = response.request.session_id
           /\ OwnedBy(response.user, sessions[i])
           /\ sessions[i].time_spent = 100

----------------------------------------------------------------------------
(* DELETE /subjects/<subject_id>, DELETE /admin/subjects/categories/<name>  *)
(* and DELETE /sessions/<session_id>                                        *)

MaxDeleteSubjects == 2
MaxDeleteSessions == 2
MaxDeleteId == 3

\* the sessions of the deleted subjects stay in their table
CascadeNone(deleted, ss) == ss

\* cascade='all, delete-orphan' on Subject.study_sessions: the unit of work
\* that deletes the subjects with an id in `deleted` deletes their sessions
Cascade(deleted, ss) == SelectSeq(ss, LAMBDA s : s.subject_id \notin deleted)

\* db.session.delete(subject) for every subject with an id in `deleted`, then
\* the commit; deleted_sessions is the number of session rows it removes
DeleteSubjects(deleted) ==
    /\ subjects' = SelectSeq(subjects, LAMBDA s : s.id \notin deleted)
    /\ sessions' = Cascade(deleted, sessions)

DeleteSubject(u, subject_id) ==
    /\ IF ~OwnsSubject(u, subject_id)
       THEN /\ response' = [op |-> "delete_subject", status |-> 404, user |-> u,
                            subject_id |-> subject_id,
                            deleted_subjects |-> 0, deleted_sessions |-> 0]
            /\ UNCHANGED <<subjects, sessions>>
       ELSE /\ DeleteSubjects({subject_id})
            /\ response' = [op |-> "delete_subject", status |-> 200, user |-> u,
                            subject_id |-> subject_id,
                            deleted_subjects |-> 1,
                            deleted_sessions |-> Len(StudySessionsOf(subject_id))]
    /\ UNCHANGED <<now, calls, audio_notes, pending>>

\* Subject.query.filter_by(name=category_name).all(), of every user
SubjectsNamed(category_name) ==
    {subjects[i].id : i \in {j \in 1..Len(subjects) : subjects[j].name = category_name}}

DeleteSubjectCategory(u, category_name) ==
    /\ LET deleted == SubjectsNamed(category_name)
           answer(status, n, m) ==
               [op |-> "delete_subject_category", status |-> status, user |-> u,
                category_name |-> category_name,
                deleted_subjects |-> n, deleted_sessions |-> m]
       IN  IF u \notin Admins
           THEN /\ response' = answer(403, 0, 0)
                /\ UNCHANGED <<subjects, sessions>>
           ELSE IF deleted = {}
           THEN /\ response' = answer(404, 0, 0)
                /\ UNCHANGED <<subjects, sessions>>
           ELSE /\ DeleteSubjects(deleted)
                /\ response' = answer(200, Cardinality(deleted),
                                      Len(sessions) - Len(Cascade(deleted, sessions)))
    /\ UNCHANGED <<now, calls, audio_notes, pending>>

DeleteSession(u, session_id) ==
    /\ IF ~OwnsSession(u, session_id)
       THEN /\ response' = [op |-> "delete_session", status |-> 404, user |-> u,
                            session_id |-> session_id]
            /\ UNCHANGED sessions
       ELSE /\ sessions' = SelectSeq(sessions, LAMBDA s : s.id /= session_id)
            /\ response' = [op |-> "delete_session", status |-> 200, user |-> u,
                            session_id |-> session_id]
    /\ UNCHANGED <<now, subjects, calls, audio_notes, pending>>

\* Two users who create and delete subjects of both names and sessions in
\* them, one of the users being an administrator, and the ranking read after.
\* A deleted row frees its place but the keys go on growing, so the creations
\* stop at the key MaxDeleteId.
DeleteNext ==
    \/ \E u \in Users, name \in Names :
           /\ NextId(subjects) <= MaxDeleteId
           /\ CreateSubject(u, name, MaxDeleteSubjects)
    \/ \E u \in Users, sid \in 1..MaxDeleteId :
           /\ NextId(sessions) <= MaxDeleteId
           /\ CreateSession(u, sid, 100, None, MaxDeleteSessions)
    \/ \E u \in Users, sid \in 1..MaxDeleteId : DeleteSubject(u, sid)
    \/ \E u \in Users, name \in Names : DeleteSubjectCategory(u, name)
    \/ \E u \in Users, session_id \in 1..MaxDeleteId : DeleteSession(u, session_id)
    \/ \E u \in Users : GetSubjectStats(u)

SpecDelete == Init /\ [][DeleteNext]_vars

----------------------------------------------------------------------------
(* Statements about deletions *)

\* C28: every stored study session refers to a stored subject, whatever was
\* created and deleted before, and every entry of get_subject_stats counts
\* the sessions of a stored subject only.
C28_SessionsHaveSubject ==
    /\ \A i \in 1..Len(sessions) : sessions[i].subject_id \in SubjectIds
    /\ response.op = "get_subject_stats" =>
         /\ \A i \in 1..Len(response.stats) : response.stats[i].id \in SubjectIds
         /\ SumSeq([i \in 1..Len(response.stats) |-> response.stats[i].session_count])
              = Len(UserSessions(response.user))

\* a subject that had sessions was deleted while another subject keeps its
\* session
C28_Witness ==
    /\ response.op \in {"delete_subject", "delete_subject_category"}
    /\ response.status = 200
    /\ response.deleted_sessions >= 1
    /\ sessions /= <<>>

----------------------------------------------------------------------------
(* POST /audio and GET /audio/stats *)

MaxAudioNotes == 2
MaxAudioSessions == 2
MaxAudioDays == 1
DaysPerWeek == 7

\* the uploads sent as request.files['audio']: none, one without a file
\* name, a recording and a text file; extension is
\* filename.rsplit('.', 1)[1].lower()
Uploads ==
    {[present |-> FALSE, filename |-> "", extension |-> ""],
     [present |-> TRUE, filename |-> "", extension |-> ""],
     [present |-> TRUE, filename |-> "note.MP3", extension |-> "mp3"],
     [present |-> TRUE, filename |-> "note.txt", extension |-> "txt"]}

allowed_extensions == {"wav", "mp3", "m4a", "ogg"}

\* the stored note keeps its owner and its instant; the file, the transcript
\* and the duration play no part in the counts
CreateAudioNote(u, upload, maxNotes) ==
    /\ Len(audio_notes) < maxNotes
    /\ IF ~upload.present \/ upload.filename = ""
          \/ upload.extension \notin allowed_extensions
       THEN /\ response' = [op |-> "create_audio_note", status |-> 400, user |-> u]
            /\ UNCHANGED audio_notes
       ELSE /\ audio_notes' = Append(audio_notes,
                [id |-> NextId(audio_notes), user_id |-> u, timestamp |-> now])
            /\ response' = [op |-> "create_audio_note", status |-> 201, user |-> u]
    /\ UNCHANGED <<now, subjects, sessions, calls, pending>>

\* the names of the days from the day of instant 0 on
DayNames ==
    <<"Thursday", "Friday", "Saturday", "Sunday", "Monday", "Tuesday", "Wednesday">>

\* note.timestamp.strftime('%A')
DayName(ts) == DayNames[(DateOf(ts) % DaysPerWeek) + 1]

\* day_counts[day] = 1: a day keeps the count one, however many notes it has
CountDayOnce(day_counts, day) ==
    IF \E i \in 1..Len(day_counts) : day_counts[i].day = day
    THEN day_counts
    ELSE Append(day_counts, [day |-> day, count |-> 1])

\* day_counts[day] = day_counts.get(day, 0) + 1, the dict kept in insertion
\* order as a sequence of [day, count]
CountDay(day_counts, day) ==
    IF \E i \in 1..Len(day_counts) : day_counts[i].day = day
    THEN [i \in 1..Len(day_counts) |->
            IF day_counts[i].day = day
            THEN [day_counts[i] EXCEPT !.count = day_counts[i].count + 1]
            ELSE day_counts[i]]
    ELSE Append(day_counts, [day |-> day, count |-> 1])

RECURSIVE DayLoop(_, _)
DayLoop(notes, day_counts) ==
    IF notes = <<>> THEN day_counts
    ELSE DayLoop(Tail(notes), CountDay(day_counts, DayName(Head(notes).timestamp)))

\* AudioNote.query.filter_by(user_id=current_user_id).all()
UserNotes(u) == SelectSeq(audio_notes, LAMBDA n : n.user_id = u)

get_audio_stats(u) ==
    [op |-> "get_audio_stats", user |-> u,
     total_notes |-> Len(UserNotes(u)),
     notes_by_day |-> DayLoop(UserNotes(u), <<>>)]

GetAudioStats(u) ==
    /\ response' = get_audio_stats(u)
    /\ UNCHANGED <<now, subjects, sessions, calls, audio_notes, pending>>

\* One user with subjects of both names and sessions on two days, two users
\* with audio notes on two days of one week and on the same days a week later,
\* and the two requests that count them.  The clock moves by whole days.
AudioHorizon == Days(DaysPerWeek) + Days(MaxAudioDays)

AudioNext ==
    \/ Advance(Days(1), Days(MaxAudioDays))
    \/ Advance(Days(DaysPerWeek), AudioHorizon)
    \/ \E name \in Names : CreateSubject(1, name, MaxSubjects)
    \/ \E sid \in 1..MaxSubjects : CreateSession(1, sid, 100, None, MaxAudioSessions)
    \/ \E u \in Users, upload \in Uploads : CreateAudioNote(u, upload, MaxAudioNotes)
    \/ GetAnalytics(1, 1)
    \/ \E u \in Users : GetAudioStats(u)

SpecAudio == Init /\ [][AudioNext]_vars

----------------------------------------------------------------------------
(* Statements about counts *)

\* C26: in a get_analytics response the session counts of the dates and the
\* session counts of the subjects each add up to total_sessions, and in a
\* get_audio_stats response the counts of notes_by_day add up to total_notes.
C26_CountsPartition ==
    /\ response.op = "get_analytics" =>
         /\ SumSeq([i \in 1..Len(response.daily_breakdown) |->
                       response.daily_breakdown[i].sessions])
              = response.summary.total_sessions
         /\ SumSeq([i \in 1..Len(response.subject_breakdown) |->
                       response.subject_breakdown[i].sessions])
              = response.summary.total_sessions
    /\ response.op = "get_audio_stats" =>
         SumSeq([i \in 1..Len(response.notes_by_day) |-> response.notes_by_day[i].count])
           = response.total_notes

\* two notes of the user, recorded a week apart, were counted under the same
\* day of the week
C26_Witness ==
    /\ response.op = "get_audio_stats"
    /\ response.total_notes = 2
    /\ Len(response.notes_by_day) = 1
    /\ DateOf(audio_notes[1].timestamp) /= DateOf(audio_notes[2].timestamp)

----------------------------------------------------------------------------
(* GET /admin/dashboard, run by a thread in two steps while other requests  *)
(* write: the overall counts, then everything from week_ago on             *)

MaxDashSessions == 2
MaxDashNotes == 2
MaxDashNow == 1
MaxDashId == 3

\* an upload that create_audio_note accepts
Recording == [present |-> TRUE, filename |-> "note.MP3", extension |-> "mp3"]

\* admin_dashboard up to `total_audio_notes = AudioNote.query.count()`
BeginDashboard(u) ==
    /\ pending = <<>>
    /\ IF u \notin Admins
       THEN /\ response' = [op |-> "admin_dashboard", status |-> 403]
            /\ UNCHANGED pending
       ELSE /\ pending' = Append(pending,
                              [Request("admin_dashboard", u) EXCEPT
                                  !.total_subjects = Len(subjects),
                                  !.total_sessions = Len(sessions),
                                  !.total_audio_notes = Len(audio_notes)])
            /\ UNCHANGED response
    /\ UNCHANGED <<now, subjects, sessions, calls, audio_notes>>

\* admin_dashboard from `week_ago = ...` to its response: each count is a
\* query of its own over the tables as they are when it runs
FinishDashboard(k, laterFirst) ==
    /\ k \in 1..Len(pending)
    /\ pending[k].op = "admin_dashboard"
    /\ LET week_ago == now - Days(WeeklyDays)
       IN  response' =
               [op |-> "admin_dashboard", status |-> 200,
                overview |-> [total_users |-> Cardinality(Users),
                              total_subjects |-> pending[k].total_subjects,
                              total_sessions |-> pending[k].total_sessions,
                              total_audio_notes |-> pending[k].total_audio_notes],
                recent_activity |->
                    [new_sessions |->
                        Len(SelectSeq(sessions, LAMBDA s : s.timestamp >= week_ago)),
                     new_audio_notes |->
                        Len(SelectSeq(audio_notes, LAMBDA n : n.timestamp >= week_ago))],
                daily_activity |-> daily_sessions,
                top_subjects |-> top_subjects(laterFirst)]
    /\ pending' = RemoveAt(pending, k)
    /\ UNCHANGED <<now, subjects, sessions, calls, audio_notes>>

\* An administrator reading the dashboard while a user creates and deletes
\* sessions and records audio notes.
DashboardNext ==
    \/ Tick(MaxDashNow)
    \/ CreateSubject(1, "math", MaxSubjects)
    \/ \E sid \in 1..MaxSubjects :
           /\ NextId(sessions) <= MaxDashId
           /\ CreateSession(1, sid, 100, None, MaxDashSessions)
    \/ \E session_id \in 1..MaxDashId : DeleteSession(1, session_id)
    \/ CreateAudioNote(1, Recording, MaxDashNotes)
    \/ \E u \in Users : BeginDashboard(u)
    \/ \E k \in 1..MaxPending, laterFirst \in BOOLEAN : FinishDashboard(k, laterFirst)

SpecDashboard == Init /\ [][DashboardNext]_vars

----------------------------------------------------------------------------
(* Statements about the counts of the dashboard *)

\* C25: in every admin_dashboard response the number of sessions of the last
\* 7 days is at most the number of all sessions, and the number of audio
\* notes of the last 7 days is at most the number of all audio notes, also
\* when other requests write between the queries of the dashboard.
C25_DeltasWithinTotals ==
    (response.op = "admin_dashboard" /\ response.status = 200) =>
        /\ response.recent_activity.new_sessions <= response.overview.total_sessions
        /\ response.recent_activity.new_audio_notes
             <= response.overview.total_audio_notes

----------------------------------------------------------------------------
(* Two users writing to the store while each reads their statistics *)

MaxOwnerSubjects == 2
MaxOwnerSessions == 2
MaxOwnerNow == 2

\* Both users create subjects and sessions; user 2 also changes and deletes
\* what the store holds, and user 1 reads their statistics.  The creations
\* stop at the keys MaxOwnerSubjects and MaxOwnerSessions.
OwnerNext ==
    \/ Tick(MaxOwnerNow)
    \/ \E u \in Users :
           /\ NextId(subjects) <= MaxOwnerSubjects
           /\ CreateSubject(u, "math", MaxOwnerSubjects)
    \/ \E u \in Users, sid \in 1..MaxOwnerSubjects :
           /\ NextId(sessions) <= MaxOwnerSessions
           /\ CreateSession(u, sid, 100, 6, MaxOwnerSessions)
    \/ \E session_id \in 1..MaxOwnerSessions :
           UpdateSession(2, session_id, 25, Missing)
    \/ \E sid \in 1..MaxOwnerSubjects : DeleteSubject(2, sid)
    \/ GetStreak(1)
    \/ GetAnalytics(1, 1)
    \/ GetWeeklyInsights(1)

SpecOwner == Init /\ [][OwnerNext]_vars

----------------------------------------------------------------------------
(* Statements about what a user's statistics depend on *)

\* the subjects of user u and the sessions in them, as sets of rows
OwnSubjects(u) == {subjects[i] : i \in {j \in 1..Len(subjects) : subjects[j].user_id = u}}
OwnSessions(u) ==
    {sessions[i] : i \in {j \in 1..Len(sessions) :
                             \E g \in OwnSubjects(u) : g.id = sessions[j].subject_id}}

\* the three responses to user u computed from the rows that the queries of
\* the handlers select from the store after a step that leaves the clock alone
StreakAfter(u) == StreakOf(NewestFirst(UserSessions(u)'))

AnalyticsAfter(u, days) ==
    LET ss == WindowSessions(u, now - Days(days), now)'
    IN  analytics(u, days, now - Days(days), now, ss,
                  DailyLoop(ss, <<>>), SubjectLoop(ss, <<>>))

InsightsAfter(u) ==
    weekly_insights(u, StudyDataLoop(WindowSessions(u, now - Days(WeeklyDays), now)', <<>>))

====
